---- MODULE Spec2Model ----
(***************************************************************************)
(* Model of the generic repository of gorm-generics (repository.go) and of *)
(* its slice helper ChunkSlice.  The repository holds no state of its own: *)
(* the state is the table behind the database handle, the caller's view of *)
(* the last call (its arguments, its result, the database calls it made),  *)
(* and the entity a caller got back from Insert.                           *)
(***************************************************************************)
EXTENDS Integers, Sequences, FiniteSets, TLC

\* ------------------------------------------------------------------ bounds
\* Largest primary key, hence largest number of rows of the table.
MaxRows == 3
\* Longest list of specifications passed to one call.
MaxSpecs == 2
\* Longest slice handed to ChunkSlice.
MaxLen == 3

VARIABLES
    table,      \* the rows of the table, in the database's default order
    op,         \* the repository method whose result the caller holds, or "none"
    req,        \* the arguments of that call
    res,        \* what the call returned (and left behind the caller's pointer)
    calls,      \* the database calls the method made, in order
    held,       \* the entity a successful Insert left in the caller's pointer
    slice,      \* ChunkSlice: the input slice
    chunkSize,  \* ChunkSlice: the chunk size
    chunks      \* ChunkSlice: the returned chunks

vars == <<table, op, req, res, calls, held, slice, chunkSize, chunks>>
chunkVars == <<slice, chunkSize, chunks>>

\* ------------------------------------------------------------ value sets
Background == "background"
Contexts == {"ctxA", "ctxB"}
Names == {"a", "b"}
Elems == {"x", "y", "z"}

\* Domain entity E and persistence model M of a concrete GormModel[E].
ZeroEntity == [id |-> 0, name |-> ""]
ZeroModel == [ID |-> 0, Name |-> ""]
Entities == [id : 0..MaxRows, name : Names]
Models == [ID : 0..MaxRows, Name : Names]
\* Query-by-example arguments: zero fields are not filtered on.
Examples == [ID : 0..MaxRows, Name : Names \cup {""}]

ToEntity(m) == [id |-> m.ID, name |-> m.Name]
FromEntity(e) == [ID |-> e.id, Name |-> e.name]

FromModelToDto(models) == [i \in 1..Len(models) |-> ToEntity(models[i])]

\* --------------------------------------------------------- specifications
\* A Specification is a query fragment and its bound values.
Spec_NameIs == [query |-> "name = ?", values |-> <<"a">>]
Spec_IdBetween == [query |-> "id BETWEEN ? AND ?", values |-> <<2, MaxRows>>]
SpecPool == {Spec_NameIs, Spec_IdBetween}

\* The arguments tried: limits, offsets, page numbers and page sizes from -1 to
\* the size of the table.
Limits == -1..MaxRows
Offsets == -1..MaxRows
Pages == -1..MaxRows
Sizes == -1..MaxRows

SeqsUpTo(S, n) == UNION {[1..k -> S] : k \in 0..n}
SpecLists == SeqsUpTo(SpecPool, MaxSpecs)

\* The arguments of ChunkSlice tried.
Slices == SeqsUpTo(Elems, MaxLen)
ChunkSizes == 1..(MaxLen + 1)

\* ------------------------------------------------- the ORM's query builder
\* The handle r.db: no context, no condition, no limit, no offset.
db == [ctx |-> Background, conds |-> <<>>, limit |-> -1, offset |-> -1,
       preload |-> FALSE]

WithContext(d, ctx) == [d EXCEPT !.ctx = ctx]
Where(d, query, values) ==
    [d EXCEPT !.conds = Append(@, [query |-> query, values |-> values])]
\* Where(struct) and First(&model, id) are conditions too.
WhereExample(d, example) == Where(d, "example", <<example>>)
WherePrimaryKey(d, id) == Where(d, "pk", <<id>>)
Limit(d, n) == [d EXCEPT !.limit = n]
Offset(d, n) == [d EXCEPT !.offset = n]
Preload(d) == [d EXCEPT !.preload = TRUE]

Matches(row, cond) ==
    CASE cond.query = "name = ?" -> row.Name = cond.values[1]
      [] cond.query = "id BETWEEN ? AND ?" ->
            cond.values[1] <= row.ID /\ row.ID <= cond.values[2]
      [] cond.query = "pk" -> row.ID = cond.values[1]
      [] cond.query = "example" ->
            /\ cond.values[1].ID # 0 => row.ID = cond.values[1].ID
            /\ cond.values[1].Name # "" => row.Name = cond.values[1].Name
      [] OTHER -> FALSE

Filter(t, conds) ==
    SelectSeq(t, LAMBDA row : \A k \in DOMAIN conds : Matches(row, conds[k]))

\* LIMIT n for n >= 0, OFFSET n for n > 0; a negative value cancels the clause.
ApplyLimitOffset(rows, limit, offset) ==
    LET skip == IF offset > 0 THEN offset ELSE 0
        rest == SubSeq(rows, skip + 1, Len(rows))
    IN  IF limit < 0 \/ limit >= Len(rest) THEN rest ELSE SubSeq(rest, 1, limit)

\* What the log keeps of one database call.
Call(kind, d, err) ==
    [kind |-> kind, ctx |-> d.ctx, conds |-> d.conds, limit |-> d.limit,
     offset |-> d.offset, preload |-> d.preload, err |-> err]

\* --------------------------------------------------------- the ORM's calls
HasRow(t, id) == \E i \in DOMAIN t : t[i].ID = id
NextId(t) == IF t = <<>> THEN 1 ELSE t[Len(t)].ID + 1

InsertRow(t, row) ==
    SelectSeq(t, LAMBDA x : x.ID < row.ID) \o <<row>>
        \o SelectSeq(t, LAMBDA x : x.ID > row.ID)
RemoveRow(t, id) == SelectSeq(t, LAMBDA x : x.ID # id)

\* Create: the database assigns the key of a model whose key is unset.
DbCreate(t, model, fail) ==
    IF fail THEN [err |-> "conn", model |-> model, table |-> t]
    ELSE IF model.ID = 0
         THEN LET m == [model EXCEPT !.ID = NextId(t)]
              IN  [err |-> "nil", model |-> m, table |-> InsertRow(t, m)]
         ELSE IF HasRow(t, model.ID)
              THEN [err |-> "duplicate", model |-> model, table |-> t]
              ELSE [err |-> "nil", model |-> model, table |-> InsertRow(t, model)]

\* Save: an insert of a model whose key is unset or unknown, an update else.
DbSave(t, model, fail) ==
    IF fail THEN [err |-> "conn", model |-> model, table |-> t]
    ELSE IF model.ID = 0
         THEN LET m == [model EXCEPT !.ID = NextId(t)]
              IN  [err |-> "nil", model |-> m, table |-> InsertRow(t, m)]
         ELSE [err |-> "nil", model |-> model,
               table |-> InsertRow(RemoveRow(t, model.ID), model)]

\* Delete by the model's key; a model without a key gives no WHERE clause.
DbDelete(t, id, fail) ==
    IF fail THEN [err |-> "conn", table |-> t]
    ELSE IF id = 0 THEN [err |-> "nowhere", table |-> t]
         ELSE [err |-> "nil", table |-> RemoveRow(t, id)]

\* First: the first matching row, or the not-found error.
DbFirst(t, d, fail) ==
    IF fail THEN [err |-> "conn", model |-> ZeroModel]
    ELSE IF Filter(t, d.conds) = <<>> THEN [err |-> "notfound", model |-> ZeroModel]
         ELSE [err |-> "nil", model |-> Filter(t, d.conds)[1]]

DbFind(t, d, fail) ==
    IF fail THEN [err |-> "conn", models |-> <<>>]
    ELSE [err |-> "nil",
          models |-> ApplyLimitOffset(Filter(t, d.conds), d.limit, d.offset)]

DbCount(t, d, fail) ==
    IF fail THEN [err |-> "conn", count |-> 0]
    ELSE [err |-> "nil", count |-> Len(Filter(t, d.conds))]

\* The room the bounded table has for the row a call may add.
Room(t, id) == id # 0 \/ NextId(t) <= MaxRows

\* --------------------------------------------------------------- the calls
BlankReq ==
    [ctx |-> Background, entity |-> ZeroEntity, model |-> ZeroModel, id |-> 0,
     specs |-> <<>>, limit |-> 0, offset |-> 0, page |-> 0, size |-> 0,
     ignoreCount |-> FALSE, forceCount |-> FALSE, eagerLoad |-> FALSE]
BlankRes ==
    [err |-> "nil", data |-> <<>>, count |-> 0, page |-> 0,
     entity |-> ZeroEntity, model |-> ZeroModel]

\* A write to the row the caller holds ends what held stands for.
Forget(id) == IF held.id = id THEN ZeroEntity ELSE held

Init ==
    /\ table = <<>>
    /\ op = "none"
    /\ req = BlankReq
    /\ res = BlankRes
    /\ calls = <<>>
    /\ held = ZeroEntity
    /\ slice = <<>>
    /\ chunkSize = 1
    /\ chunks = <<>>

\* What Insert returns and leaves behind the caller's pointer, from Create's
\* outcome r.
\* Variants: the entity never written back; the error never looked at.
InsertNoWriteBack(entity, r) == [err |-> r.err, entity |-> entity]
InsertNoCheck(entity, r) == [err |-> "nil", entity |-> ToEntity(r.model)]
InsertResult(entity, r) ==
    IF r.err # "nil" THEN [err |-> r.err, entity |-> entity]
    ELSE [err |-> "nil", entity |-> ToEntity(r.model)]

Insert ==
    /\ op = "none"
    /\ \E ctx \in Contexts, entity \in Entities, fail \in BOOLEAN :
          /\ Room(table, entity.id)
          /\ LET model == FromEntity(entity)
                 d == WithContext(db, ctx)
                 r == DbCreate(table, model, fail)
                 out == InsertResult(entity, r)
             IN  /\ table' = r.table
                 /\ calls' = <<Call("Create", d, r.err)>>
                 /\ res' = [BlankRes EXCEPT !.err = out.err, !.entity = out.entity]
                 /\ held' = IF r.err = "nil" /\ entity.id = 0 THEN out.entity ELSE held
          /\ op' = "Insert"
          /\ req' = [BlankReq EXCEPT !.ctx = ctx, !.entity = entity]
          /\ UNCHANGED chunkVars

\* InsertDirect creates the caller's model as it is, through its pointer.
InsertDirect ==
    /\ op = "none"
    /\ \E ctx \in Contexts, model \in Models, fail \in BOOLEAN :
          /\ Room(table, model.ID)
          /\ LET d == WithContext(db, ctx)
                 r == DbCreate(table, model, fail)
             IN  /\ table' = r.table
                 /\ calls' = <<Call("Create", d, r.err)>>
                 /\ res' = [BlankRes EXCEPT !.err = r.err, !.model = r.model]
          /\ op' = "InsertDirect"
          /\ req' = [BlankReq EXCEPT !.ctx = ctx, !.model = model]
          /\ UNCHANGED <<held, chunkVars>>

InsertFromInterface ==
    /\ op = "none"
    /\ \E ctx \in Contexts, data \in Models, fail \in BOOLEAN :
          /\ Room(table, data.ID)
          /\ LET d == WithContext(db, ctx)
                 r == DbCreate(table, data, fail)
             IN  /\ table' = r.table
                 /\ calls' = <<Call("Create", d, r.err)>>
                 /\ res' = [BlankRes EXCEPT !.err = r.err, !.model = r.model]
          /\ op' = "InsertFromInterface"
          /\ req' = [BlankReq EXCEPT !.ctx = ctx, !.model = data]
          /\ UNCHANGED <<held, chunkVars>>

Delete ==
    /\ op = "none"
    /\ \E ctx \in Contexts, entity \in Entities, fail \in BOOLEAN :
          /\ LET model == FromEntity(entity)
                 d == WithContext(db, ctx)
                 r == DbDelete(table, model.ID, fail)
             IN  /\ table' = r.table
                 /\ calls' = <<Call("Delete", WherePrimaryKey(d, model.ID), r.err)>>
                 /\ res' = [BlankRes EXCEPT !.err = r.err, !.entity = entity]
                 /\ held' = IF r.err = "nil" THEN Forget(model.ID) ELSE held
          /\ op' = "Delete"
          /\ req' = [BlankReq EXCEPT !.ctx = ctx, !.entity = entity]
          /\ UNCHANGED chunkVars

DeleteById ==
    /\ op = "none"
    /\ \E ctx \in Contexts, id \in 0..MaxRows, fail \in BOOLEAN :
          /\ LET d == WithContext(db, ctx)
                 r == IF id = 0 /\ ~fail THEN [err |-> "nil", table |-> table]
                      ELSE DbDelete(table, id, fail)
             IN  /\ table' = r.table
                 /\ calls' = <<Call("Delete", WherePrimaryKey(d, id), r.err)>>
                 /\ res' = [BlankRes EXCEPT !.err = r.err]
                 /\ held' = IF r.err = "nil" THEN Forget(id) ELSE held
          /\ op' = "DeleteById"
          /\ req' = [BlankReq EXCEPT !.ctx = ctx, !.id = id]
          /\ UNCHANGED chunkVars

\* What Update returns and leaves behind the caller's pointer, from Save's
\* outcome r.
UpdateResult(entity, r) ==
    IF r.err # "nil" THEN [err |-> r.err, entity |-> entity]
    ELSE [err |-> "nil", entity |-> ToEntity(r.model)]

Update ==
    /\ op = "none"
    /\ \E ctx \in Contexts, entity \in Entities, fail \in BOOLEAN :
          /\ Room(table, entity.id)
          /\ LET model == FromEntity(entity)
                 d == WithContext(db, ctx)
                 r == DbSave(table, model, fail)
                 out == UpdateResult(entity, r)
             IN  /\ table' = r.table
                 /\ calls' = <<Call("Save", d, r.err)>>
                 /\ res' = [BlankRes EXCEPT !.err = out.err, !.entity = out.entity]
                 /\ held' = IF r.err = "nil" THEN Forget(r.model.ID) ELSE held
          /\ op' = "Update"
          /\ req' = [BlankReq EXCEPT !.ctx = ctx, !.entity = entity]
          /\ UNCHANGED chunkVars

UpdateDirect ==
    /\ op = "none"
    /\ \E ctx \in Contexts, model \in Models, fail \in BOOLEAN :
          /\ Room(table, model.ID)
          /\ LET d == WithContext(db, ctx)
                 r == DbSave(table, model, fail)
             IN  /\ table' = r.table
                 /\ calls' = <<Call("Save", d, r.err)>>
                 /\ res' = [BlankRes EXCEPT !.err = r.err, !.model = r.model]
                 /\ held' = IF r.err = "nil" THEN Forget(r.model.ID) ELSE held
          /\ op' = "UpdateDirect"
          /\ req' = [BlankReq EXCEPT !.ctx = ctx, !.model = model]
          /\ UNCHANGED chunkVars

\* The entity a lookup returns: the zero entity with the error, the row's else.
FoundEntity(r) == IF r.err # "nil" THEN ZeroEntity ELSE ToEntity(r.model)

FindByID ==
    /\ op = "none"
    /\ \E ctx \in Contexts, id \in 0..MaxRows, fail \in BOOLEAN :
          /\ LET d == WherePrimaryKey(WithContext(db, ctx), id)
                 r == DbFirst(table, d, fail)
             IN  /\ calls' = <<Call("First", d, r.err)>>
                 /\ res' = [BlankRes EXCEPT !.err = r.err, !.entity = FoundEntity(r)]
          /\ op' = "FindByID"
          /\ req' = [BlankReq EXCEPT !.ctx = ctx, !.id = id]
          /\ UNCHANGED <<table, held, chunkVars>>

\* The associations are preloaded whatever eagerLoad says.
FindByIDWithOptions ==
    /\ op = "none"
    /\ \E ctx \in Contexts, id \in 0..MaxRows, eagerLoad \in BOOLEAN,
          fail \in BOOLEAN :
          /\ LET d == WherePrimaryKey(Preload(WithContext(db, ctx)), id)
                 r == DbFirst(table, d, fail)
             IN  /\ calls' = <<Call("First", d, r.err)>>
                 /\ res' = [BlankRes EXCEPT !.err = r.err, !.entity = FoundEntity(r)]
          /\ op' = "FindByIDWithOptions"
          /\ req' = [BlankReq EXCEPT !.ctx = ctx, !.id = id, !.eagerLoad = eagerLoad]
          /\ UNCHANGED <<table, held, chunkVars>>

FindByModel ==
    /\ op = "none"
    /\ \E ctx \in Contexts, example \in Examples, fail \in BOOLEAN :
          /\ LET d == WhereExample(Preload(WithContext(db, ctx)), example)
                 r == DbFirst(table, d, fail)
             IN  /\ calls' = <<Call("First", d, r.err)>>
                 /\ res' = [BlankRes EXCEPT !.err = r.err, !.model = r.model]
          /\ op' = "FindByModel"
          /\ req' = [BlankReq EXCEPT !.ctx = ctx, !.model = example]
          /\ UNCHANGED <<table, held, chunkVars>>

\* The query is built on r.db itself: ctx is not used.
FindByModelMulti ==
    /\ op = "none"
    /\ \E ctx \in Contexts, example \in Examples, fail \in BOOLEAN :
          /\ LET d == WhereExample(db, example)
                 r == DbFind(table, d, fail)
             IN  /\ calls' = <<Call("Find", d, r.err)>>
                 /\ res' = [BlankRes EXCEPT !.err = r.err, !.data = r.models]
          /\ op' = "FindByModelMulti"
          /\ req' = [BlankReq EXCEPT !.ctx = ctx, !.model = example]
          /\ UNCHANGED <<table, held, chunkVars>>

\* getPreWarmDbForSelect: the caller's context, then one Where per
\* specification, first to last.
RECURSIVE ApplySpecs(_, _, _)
ApplySpecs(d, specification, k) ==
    IF k > Len(specification) THEN d
    ELSE ApplySpecs(Where(d, specification[k].query, specification[k].values),
                    specification, k + 1)

\* Variant: the specifications applied last to first.
RECURSIVE ApplySpecsBackwards(_, _, _)
ApplySpecsBackwards(d, specification, k) ==
    IF k < 1 THEN d
    ELSE ApplySpecsBackwards(
             Where(d, specification[k].query, specification[k].values),
             specification, k - 1)

getPreWarmReversed(ctx, specification) ==
    ApplySpecsBackwards(WithContext(db, ctx), specification, Len(specification))
getPreWarmDbForSelect(ctx, specification) ==
    ApplySpecs(WithContext(db, ctx), specification, 1)

\* The data query of FindWithLimit.
\* Variant: limit and offset exchanged.
FindWithLimitQuerySwapped(dbPrewarm, limit, offset) ==
    Offset(Limit(dbPrewarm, offset), limit)
FindWithLimitQuery(dbPrewarm, limit, offset) ==
    Offset(Limit(dbPrewarm, limit), offset)

\* The body of FindWithLimit, which Find, FindPaged and FindAll call too.
DoFindWithLimit(ctx, limit, offset, specifications, fail) ==
    LET dbPrewarm == getPreWarmDbForSelect(ctx, specifications)
        q == FindWithLimitQuery(dbPrewarm, limit, offset)
        r == DbFind(table, q, fail)
    IN  [calls |-> <<Call("Find", q, r.err)>>,
         err |-> r.err,
         data |-> IF r.err # "nil" THEN <<>> ELSE FromModelToDto(r.models)]

Find ==
    /\ op = "none"
    /\ \E ctx \in Contexts, specifications \in SpecLists, fail \in BOOLEAN :
          /\ LET out == DoFindWithLimit(ctx, -1, -1, specifications, fail)
             IN  /\ calls' = out.calls
                 /\ res' = [BlankRes EXCEPT !.err = out.err, !.data = out.data]
          /\ op' = "Find"
          /\ req' = [BlankReq EXCEPT !.ctx = ctx, !.specs = specifications]
          /\ UNCHANGED <<table, held, chunkVars>>

FindPaged ==
    /\ op = "none"
    /\ \E ctx \in Contexts, specifications \in SpecLists, fail \in BOOLEAN :
          /\ LET out == DoFindWithLimit(ctx, -1, -1, specifications, fail)
             IN  /\ calls' = out.calls
                 /\ res' = [BlankRes EXCEPT !.err = out.err, !.data = out.data]
          /\ op' = "FindPaged"
          /\ req' = [BlankReq EXCEPT !.ctx = ctx, !.specs = specifications]
          /\ UNCHANGED <<table, held, chunkVars>>

Count ==
    /\ op = "none"
    /\ \E ctx \in Contexts, specifications \in SpecLists, fail \in BOOLEAN :
          /\ LET d == getPreWarmDbForSelect(ctx, specifications)
                 r == DbCount(table, d, fail)
             IN  /\ calls' = <<Call("Count", d, r.err)>>
                 /\ res' = [BlankRes EXCEPT !.err = r.err, !.count = r.count]
          /\ op' = "Count"
          /\ req' = [BlankReq EXCEPT !.ctx = ctx, !.specs = specifications]
          /\ UNCHANGED <<table, held, chunkVars>>

FindWithLimit ==
    /\ op = "none"
    /\ \E ctx \in Contexts, limit \in Limits, offset \in Offsets,
          specifications \in SpecLists, fail \in BOOLEAN :
          /\ LET out == DoFindWithLimit(ctx, limit, offset, specifications, fail)
             IN  /\ calls' = out.calls
                 /\ res' = [BlankRes EXCEPT !.err = out.err, !.data = out.data]
          /\ op' = "FindWithLimit"
          /\ req' = [BlankReq EXCEPT !.ctx = ctx, !.specs = specifications,
                                     !.limit = limit, !.offset = offset]
          /\ UNCHANGED <<table, held, chunkVars>>

FindAll ==
    /\ op = "none"
    /\ \E ctx \in Contexts, fail \in BOOLEAN :
          /\ LET out == DoFindWithLimit(ctx, -1, -1, <<>>, fail)
             IN  /\ calls' = out.calls
                 /\ res' = [BlankRes EXCEPT !.err = out.err, !.data = out.data]
          /\ op' = "FindAll"
          /\ req' = [BlankReq EXCEPT !.ctx = ctx]
          /\ UNCHANGED <<table, held, chunkVars>>

\* math.Max(1, float64(pageCfg.Size))
minLimit(size) == IF size > 1 THEN size ELSE 1

\* Variant: IgnoreCount not looked at.
shouldCountAlsoIgnored(page, ignoreCount, forceCount) == forceCount \/ page = 0
shouldCount(page, ignoreCount, forceCount) ==
    forceCount \/ (page = 0 /\ ~ignoreCount)

\* int64(math.Ceil(float64(elementCount) / float64(minLimit))): the quotient,
\* and one more when the division leaves a remainder.
\* Variant: the quotient rounded down.
PageCountFloor(elementCount, limit) == elementCount \div limit
PageCount(elementCount, limit) ==
    (elementCount \div limit) + (IF elementCount % limit > 0 THEN 1 ELSE 0)

\* The data query of FindPagedWithLimit.
\* Variant: OFFSET page * size.
PagedQueryByPage(dbPrewarm, limit, page) ==
    Offset(Limit(dbPrewarm, limit), page * limit)
PagedQuery(dbPrewarm, limit, page) == Offset(Limit(dbPrewarm, limit), page)

FindPagedWithLimit ==
    /\ op = "none"
    /\ \E ctx \in Contexts, page \in Pages, size \in Sizes,
          ignoreCount \in BOOLEAN, forceCount \in BOOLEAN,
          specifications \in SpecLists, failCount \in BOOLEAN,
          failData \in BOOLEAN :
          /\ failCount => shouldCount(page, ignoreCount, forceCount)
          /\ LET dbPrewarm == getPreWarmDbForSelect(ctx, specifications)
                 rs == [BlankRes EXCEPT !.count = 0, !.page = page]
                 counting == shouldCount(page, ignoreCount, forceCount)
                 c == DbCount(table, dbPrewarm, failCount)
                 counted == IF counting
                            THEN [rs EXCEPT !.count = PageCount(c.count, minLimit(size))]
                            ELSE rs
                 q == PagedQuery(dbPrewarm, minLimit(size), page)
                 f == DbFind(table, q, failData)
                 countCall == IF counting THEN <<Call("Count", dbPrewarm, c.err)>>
                              ELSE <<>>
             IN  IF counting /\ c.err # "nil"
                 THEN /\ calls' = countCall
                      /\ res' = [rs EXCEPT !.err = c.err]
                 ELSE /\ calls' = countCall \o <<Call("Find", q, f.err)>>
                      /\ res' = IF f.err # "nil" THEN [counted EXCEPT !.err = f.err]
                                ELSE [counted EXCEPT !.data = f.models]
          /\ op' = "FindPagedWithLimit"
          /\ req' = [BlankReq EXCEPT !.ctx = ctx, !.specs = specifications,
                                     !.page = page, !.size = size,
                                     !.ignoreCount = ignoreCount,
                                     !.forceCount = forceCount]
          /\ UNCHANGED <<table, held, chunkVars>>

\* Both build the query on r.db itself (ctx is not used) and return the
\* converted rows together with the error.
FindByEntity ==
    /\ op = "none"
    /\ \E ctx \in Contexts, e \in Examples, fail \in BOOLEAN :
          /\ LET d == WhereExample(db, e)
                 r == DbFind(table, d, fail)
             IN  /\ calls' = <<Call("Find", d, r.err)>>
                 /\ res' = [BlankRes EXCEPT !.err = r.err,
                                            !.data = FromModelToDto(r.models)]
          /\ op' = "FindByEntity"
          /\ req' = [BlankReq EXCEPT !.ctx = ctx, !.model = e]
          /\ UNCHANGED <<table, held, chunkVars>>

FindByEntityWithOptions ==
    /\ op = "none"
    /\ \E ctx \in Contexts, e \in Examples, eagerLoad \in BOOLEAN,
          fail \in BOOLEAN :
          /\ LET d == Preload(WhereExample(db, e))
                 r == DbFind(table, d, fail)
             IN  /\ calls' = <<Call("Find", d, r.err)>>
                 /\ res' = [BlankRes EXCEPT !.err = r.err,
                                            !.data = FromModelToDto(r.models)]
          /\ op' = "FindByEntityWithOptions"
          /\ req' = [BlankReq EXCEPT !.ctx = ctx, !.model = e, !.eagerLoad = eagerLoad]
          /\ UNCHANGED <<table, held, chunkVars>>

\* ------------------------------------------------------------- ChunkSlice
\* The loop of ChunkSlice from index i on, chunks being what it has appended:
\* slice[i:end] is the elements i+1 .. end of the sequence.
RECURSIVE ChunkLoop(_, _, _, _)
ChunkLoop(s, size, i, acc) ==
    IF ~(i < Len(s)) THEN acc
    ELSE LET end == IF i + size > Len(s) THEN Len(s) ELSE i + size
         IN  ChunkLoop(s, size, i + size, Append(acc, SubSeq(s, i + 1, end)))

\* Variant: the last, shorter chunk left out.
RECURSIVE ChunkLoopFullOnly(_, _, _, _)
ChunkLoopFullOnly(s, size, i, acc) ==
    IF ~(i + size <= Len(s)) THEN acc
    ELSE ChunkLoopFullOnly(s, size, i + size,
                           Append(acc, SubSeq(s, i + 1, i + size)))

ChunkSliceFullOnly(s, size) == ChunkLoopFullOnly(s, size, 0, <<>>)
ChunkSlice(s, size) == ChunkLoop(s, size, 0, <<>>)

InitChunk ==
    /\ table = <<>>
    /\ op = "none"
    /\ req = BlankReq
    /\ res = BlankRes
    /\ calls = <<>>
    /\ held = ZeroEntity
    /\ slice \in Slices
    /\ chunkSize \in ChunkSizes
    /\ chunks = <<>>

CallChunkSlice ==
    /\ op = "none"
    /\ op' = "ChunkSlice"
    /\ chunks' = ChunkSlice(slice, chunkSize)
    /\ UNCHANGED <<table, req, res, calls, held, slice, chunkSize>>

NextChunk == CallChunkSlice

SpecChunk == InitChunk /\ [][NextChunk]_vars

Return ==
    /\ op # "none"
    /\ op' = "none"
    /\ req' = BlankReq
    /\ res' = BlankRes
    /\ calls' = <<>>
    /\ UNCHANGED <<table, held, chunkVars>>

Next ==
    \/ Insert
    \/ InsertDirect
    \/ InsertFromInterface
    \/ Delete
    \/ DeleteById
    \/ Update
    \/ UpdateDirect
    \/ FindByID
    \/ FindByIDWithOptions
    \/ FindByModel
    \/ FindByModelMulti
    \/ Find
    \/ FindPaged
    \/ Count
    \/ FindWithLimit
    \/ FindAll
    \/ FindPagedWithLimit
    \/ FindByEntity
    \/ FindByEntityWithOptions
    \/ Return

Spec == Init /\ [][Next]_vars
\* ---------------------------------------------------------------- claims
\* What the claims are stated with: the rows of the table that satisfy every
\* specification of the call, in the table's order, and the page size asked.
SatisfiesAll(row, specifications) ==
    \A k \in DOMAIN specifications : Matches(row, specifications[k])
MatchingRows == SelectSeq(table, LAMBDA row : SatisfiesAll(row, req.specs))
Min(a, b) == IF a < b THEN a ELSE b
ClampedSize == IF req.size >= 1 THEN req.size ELSE 1
CountIssued == \E i \in DOMAIN calls : calls[i].kind = "Count"
CountSucceeded ==
    \E i \in DOMAIN calls : calls[i].kind = "Count" /\ calls[i].err = "nil"
DataIssued == \E i \in DOMAIN calls : calls[i].kind = "Find"
\* The rows a LIMIT/OFFSET pair selects of MatchingRows, a negative value
\* cancelling its clause.
Window(limit, offset) ==
    LET from == IF offset < 0 THEN 0 ELSE offset
        to == IF limit < 0 THEN Len(MatchingRows)
              ELSE Min(from + limit, Len(MatchingRows))
    IN  SubSeq(MatchingRows, from + 1, to)

\* C1: whenever FindPagedWithLimit counts, the returned Count is the ceiling of
\* R / max(1, Size), R being the number of rows that match all the
\* specifications, whatever Page is and without LIMIT or OFFSET on the COUNT.
C1_PageCountIsCeiling ==
    (op = "FindPagedWithLimit" /\ CountSucceeded) =>
        /\ res.count * ClampedSize >= Len(MatchingRows)
        /\ (res.count - 1) * ClampedSize < Len(MatchingRows)
        /\ calls[1].kind = "Count" /\ calls[1].limit < 0 /\ calls[1].offset < 0

C1_Witness ==
    /\ op = "FindPagedWithLimit" /\ CountSucceeded
    /\ req.size = 2 /\ req.page = 1 /\ req.specs = <<>>
    /\ Len(table) = 3 /\ res.count = 2

\* C2: FindPagedWithLimit issues the COUNT query exactly when ForceCount is set,
\* or Page = 0 and IgnoreCount is not set; otherwise the returned Count is 0.
C2_CountsExactlyWhenAsked ==
    op = "FindPagedWithLimit" =>
        /\ CountIssued <=> (req.forceCount \/ (req.page = 0 /\ ~req.ignoreCount))
        /\ ~(req.forceCount \/ (req.page = 0 /\ ~req.ignoreCount)) => res.count = 0

C2_Witness ==
    /\ op = "FindPagedWithLimit"
    /\ req.page # 0 /\ ~req.forceCount /\ req.ignoreCount
    /\ Len(MatchingRows) = 2 /\ res.err = "nil" /\ res.data # <<>>
    /\ ~CountIssued /\ res.count = 0

\* C3: Find, FindPaged, FindWithLimit, Count and FindPagedWithLimit filter every
\* query they execute by their specifications, each exactly once and in the
\* order given, values included; no specification means no filter; the rows
\* and the count returned are those of the rows satisfying all of them.
C3_SpecificationsComposeInOrder ==
    op \in {"Find", "FindPaged", "FindWithLimit", "Count", "FindPagedWithLimit",
            "FindAll"} =>
        /\ calls # <<>>
        /\ \A i \in DOMAIN calls : calls[i].conds = req.specs
        /\ (op \in {"Find", "FindPaged", "FindAll"} /\ res.err = "nil") =>
              res.data = FromModelToDto(MatchingRows)
        /\ (op = "Count" /\ res.err = "nil") => res.count = Len(MatchingRows)

C3_Witness ==
    /\ op = "Find" /\ res.err = "nil"
    /\ req.specs = <<Spec_IdBetween, Spec_NameIs>>
    /\ Len(table) = 3 /\ Len(res.data) = 1
    /\ calls[1].conds = <<Spec_IdBetween, Spec_NameIs>>

\* C4: an error of either query of FindPagedWithLimit is returned at once and
\* with no partial result: no data query after a failed COUNT, and neither
\* Data nor a Count of an earlier step in the PageResult.
C4_ErrorDiscardsPartialResults ==
    (op = "FindPagedWithLimit" /\ res.err # "nil") =>
        /\ res.data = <<>>
        /\ res.count = 0
        /\ (CountIssued /\ ~CountSucceeded) => ~DataIssued

C6_InsertThenFindByID ==
    /\ (op = "Insert" /\ req.entity.id = 0 /\ res.err = "nil") =>
          /\ res.entity.id # 0
          /\ \E i \in DOMAIN table : table[i] = FromEntity(res.entity)
          /\ held = res.entity
    /\ (op = "FindByID" /\ held # ZeroEntity /\ req.id = held.id
            /\ res.err # "conn") =>
          /\ res.err = "nil"
          /\ res.entity = held

C6_Witness ==
    /\ op = "FindByID" /\ req.id = 2
    /\ held = [id |-> 2, name |-> "b"]
    /\ res.err = "nil" /\ res.entity = held

\* C7: FindWithLimit returns the matching rows offset+1 .. offset+limit, in
\* the table's order and converted to entities: min(limit, max(0, n - offset))
\* of them for limit > 0 and offset >= 0; a negative limit is no limit and a
\* negative offset no offset, so Find, FindPaged and FindAll return all n.
C7_FindWithLimitWindow ==
    /\ (op = "FindWithLimit" /\ res.err = "nil" /\ req.limit # 0) =>
          res.data = FromModelToDto(Window(req.limit, req.offset))
    /\ (op = "FindWithLimit" /\ res.err = "nil" /\ req.limit > 0
            /\ req.offset >= 0) =>
          /\ Len(MatchingRows) - req.offset >= 0 =>
                Len(res.data) = Min(req.limit, Len(MatchingRows) - req.offset)
          /\ Len(MatchingRows) - req.offset < 0 => Len(res.data) = 0
    /\ (op \in {"Find", "FindPaged", "FindAll"} /\ res.err = "nil") =>
          /\ Len(res.data) = Len(MatchingRows)
          /\ \A i \in DOMAIN res.data : res.data[i] = ToEntity(MatchingRows[i])

C7_Witness ==
    /\ op = "FindWithLimit" /\ res.err = "nil"
    /\ req.limit = 2 /\ req.offset = 0 /\ req.specs = <<>>
    /\ Len(table) = 3 /\ res.data = <<ToEntity(table[1]), ToEntity(table[2])>>

\* C8: every method that takes the caller's context makes each of its
\* database calls with that context.
C8_ContextForwarded ==
    op \notin {"none", "ChunkSlice"} =>
        /\ calls # <<>>
        /\ \A i \in DOMAIN calls : calls[i].ctx = req.ctx

\* C9: on success FindPagedWithLimit returns the matching rows selected by
\* LIMIT max(1, Size) and OFFSET Page (the page number itself): for Page >= 0
\* the rows Page+1 .. Page+max(1, Size), at most max(1, Size) of them, and
\* the Page asked for.
C9_PagedDataWindow ==
    (op = "FindPagedWithLimit" /\ res.err = "nil") =>
        /\ res.page = req.page
        /\ Len(res.data) <= ClampedSize
        /\ res.data = Window(ClampedSize, req.page)
        /\ calls[Len(calls)].kind = "Find"
        /\ calls[Len(calls)].limit = ClampedSize
        /\ calls[Len(calls)].offset = req.page

C9_Witness ==
    /\ op = "FindPagedWithLimit" /\ res.err = "nil"
    /\ req.page = 1 /\ req.size = 2 /\ req.specs = <<>>
    /\ Len(table) = 3 /\ res.data = <<table[2], table[3]>>

\* C10: Insert and Update return the error of Create or Save as it is and then
\* leave the caller's entity as it was; when the call succeeds they return nil
\* and the caller's entity is the persisted row, converted.
C10_EntityWrittenOnlyOnSuccess ==
    op \in {"Insert", "Update"} =>
        /\ Len(calls) = 1
        /\ res.err = calls[1].err
        /\ calls[1].err # "nil" => res.entity = req.entity
        /\ calls[1].err = "nil" =>
              \E i \in DOMAIN table :
                  /\ res.entity = ToEntity(table[i])
                  /\ table[i].Name = req.entity.name
                  /\ req.entity.id # 0 => table[i].ID = req.entity.id

C10_Witness ==
    /\ op = "Insert" /\ res.err = "duplicate"
    /\ req.entity = [id |-> 1, name |-> "b"]
    /\ res.entity = req.entity
    /\ table = <<[ID |-> 1, Name |-> "a"]>>
====
